---- MODULE Spec2Model ----
(***************************************************************************)
(* Agent performance dashboard (src/app.py): the weekly aggregation query, *)
(* the period selector, the per-period aggregation and ranking, the agent  *)
(* summary, and the time-based memoisation of the query result.            *)
(***************************************************************************)
EXTENDS Integers, Sequences, FiniteSets, TLC

VARIABLES
    viewings,        \* store: rows of table viewings
    prospects,       \* store: rows of table prospects
    weekly,          \* rows returned by the query of load_weekly_data
    qpc,             \* position of the query run: "ready" | "done"
    df,              \* the loaded weekly table of the page run
    pc,              \* position of the page run
    view_mode,       \* "Week" | "Month" | "Custom range"
    selected_date,   \* the anchor picked in the date widget (Week, Month)
    start_date,
    end_date,
    agg_df,          \* per-agent sums, all agents, zero filled
    agent_order,     \* agents in ranking order
    selected_agent,
    summary,         \* the sums and rates of the selected agent
    narrative,       \* the rendered summary text, or NULL
    error,           \* the exception that ended the page run, or NoError
    now,             \* the clock, in seconds
    cache,           \* the memoised result of load_weekly_data: <<>> or <<entry>>
    store_up,        \* whether the database answers
    store_version,   \* the content of the database
    queries,         \* how many times the query has been sent
    run_pc,          \* per session: position of its script run
    run_df,          \* per session: what load_weekly_data returned, <<>> or <<entry>>
    run_called_at,   \* per session: when its run called load_weekly_data
    run_error,       \* per session: the exception that ended its run
    rendered         \* per session: the sections its run has rendered

pageVars == <<df, pc, view_mode, selected_date, start_date, end_date,
              agg_df, agent_order, selected_agent, summary, narrative, error>>
storeVars == <<viewings, prospects, weekly, qpc>>
cacheVars == <<now, cache, store_up, store_version, queries, run_pc, run_df,
               run_called_at, run_error, rendered>>
notPageVars == <<storeVars, cacheVars>>
vars == <<viewings, prospects, weekly, qpc, df, pc, view_mode, selected_date,
          start_date, end_date, agg_df, agent_order, selected_agent, summary,
          narrative, error, now, cache, store_up, store_version, queries, run_pc,
          run_df, run_called_at, run_error, rendered>>

NULL == "NULL"
\* a nullable number is <<>> (SQL NULL, pandas NaN) or <<n>>
NullNumber == <<>>
Number(n) == <<n>>
\* the NaN that .min() and .max() give on an empty column; it is no date
NaN == [nan |-> TRUE]
NoError == "none"

(***************************************************************************)
(* Calendar dates (datetime.date): records [y, m, d].                      *)
(***************************************************************************)
Date(y, m, d) == [y |-> y, m |-> m, d |-> d]

IsLeap(y) == (y % 4 = 0) /\ ((y % 100 # 0) \/ (y % 400 = 0))

DaysInMonth(y, m) ==
    IF m = 2 THEN (IF IsLeap(y) THEN 29 ELSE 28)
    ELSE IF m \in {4, 6, 9, 11} THEN 30 ELSE 31

RECURSIVE DaysBeforeMonth(_, _)
DaysBeforeMonth(y, m) ==
    IF m = 1 THEN 0 ELSE DaysBeforeMonth(y, m - 1) + DaysInMonth(y, m - 1)

DaysBeforeYear(y) ==
    (y - 1) * 365 + ((y - 1) \div 4) - ((y - 1) \div 100) + ((y - 1) \div 400)

\* date.toordinal(): 1 for 0001-01-01
ToOrdinal(dt) == DaysBeforeYear(dt.y) + DaysBeforeMonth(dt.y, dt.m) + dt.d

\* date.weekday(): Monday is 0
Weekday(dt) == (ToOrdinal(dt) + 6) % 7

NextDay(dt) ==
    IF dt.d < DaysInMonth(dt.y, dt.m) THEN Date(dt.y, dt.m, dt.d + 1)
    ELSE IF dt.m < 12 THEN Date(dt.y, dt.m + 1, 1)
    ELSE Date(dt.y + 1, 1, 1)

PrevDay(dt) ==
    IF dt.d > 1 THEN Date(dt.y, dt.m, dt.d - 1)
    ELSE IF dt.m > 1 THEN Date(dt.y, dt.m - 1, DaysInMonth(dt.y, dt.m - 1))
    ELSE Date(dt.y - 1, 12, 31)

\* date + timedelta(days=n), n >= 0
RECURSIVE AddDays(_, _)
AddDays(dt, n) == IF n = 0 THEN dt ELSE AddDays(NextDay(dt), n - 1)

\* date - n days, n >= 0
RECURSIVE SubDays(_, _)
SubDays(dt, n) == IF n = 0 THEN dt ELSE SubDays(PrevDay(dt), n - 1)

\* date comparison: by (year, month, day)
DateLT(a, b) ==
    \/ a.y < b.y
    \/ a.y = b.y /\ a.m < b.m
    \/ a.y = b.y /\ a.m = b.m /\ a.d < b.d

DateLE(a, b) == a = b \/ DateLT(a, b)

(***************************************************************************)
(* Agents.  sorted() and ORDER BY agent compare names; AgentNames lists    *)
(* the names in that order.                                                *)
(***************************************************************************)
AgentNames == <<"A", "B", "C">>
Agents == {AgentNames[i] : i \in 1..Len(AgentNames)}
AgentIndex(a) == CHOOSE i \in 1..Len(AgentNames) : AgentNames[i] = a
AgentLT(a, b) == AgentIndex(a) < AgentIndex(b)

(***************************************************************************)
(* load_weekly_data: the aggregation query                                 *)
(***************************************************************************)
\* TO_DATE("Date", 'DD/MM/YYYY'): the text is kept as its three fields
\* <<DD, MM, YYYY>>
ToDate(text) == Date(text[3], text[2], text[1])

\* DATE_TRUNC('week', d)::date : the Monday of d's week
DateTruncWeek(dt) == SubDays(dt, Weekday(dt))

\* WITH cleaned_viewings AS (... WHERE "personId" IS NOT NULL)
CleanedViewings(vs) ==
    {[personId |-> v.personId, Agent |-> v.Agent, viewing_date |-> ToDate(v.Date)] :
        v \in {w \in vs : w.personId # NULL}}

NoProspect == [personId |-> NULL, Applied |-> NULL, Status |-> NULL]

\* FROM cleaned_viewings v LEFT JOIN prospects p ON v."personId" = p."personId"
LeftJoinProspects(cv, ps) ==
    LET matched == {j \in [v : cv, p : ps] : j.v.personId = j.p.personId}
        unmatched == {[v |-> v, p |-> NoProspect] :
                         v \in {w \in cv : \A p \in ps : p.personId # w.personId}}
    IN  matched \cup unmatched

\* mutant: a zero denominator gives 0 instead of NULL
SqlRateZero(num, den) ==
    IF den = 0 THEN Number(0) ELSE Number((2000 * num + den) \div (2 * den))

\* ROUND(num::NUMERIC / NULLIF(den, 0) * 100, 1), in tenths of a percent;
\* NUMERIC rounds half away from zero
SqlRate(num, den) ==
    IF den = 0 THEN NullNumber ELSE Number((2000 * num + den) \div (2 * den))

\* one group of GROUP BY 1, 2 with its COUNT(DISTINCT ...) columns
WeeklyGroup(joined, agent, week_start) ==
    LET grp == {j \in joined : j.v.Agent = agent
                               /\ DateTruncWeek(j.v.viewing_date) = week_start}
        total_viewings == Cardinality({j.v.personId : j \in grp})
        applications ==
            Cardinality({j.v.personId : j \in {k \in grp : k.p.Applied # NULL}})
        tenants ==
            Cardinality({j.v.personId : j \in {k \in grp : k.p.Status = "Current"}})
    IN  [agent |-> agent,
         week_start |-> week_start,
         week_end |-> AddDays(week_start, 6),
         total_viewings |-> total_viewings,
         applications |-> applications,
         tenants |-> tenants,
         view_to_app_rate |-> SqlRate(applications, total_viewings),
         app_to_tenant_rate |-> SqlRate(tenants, applications),
         total_conversion_rate |-> SqlRate(tenants, total_viewings)]

\* ORDER BY week_start, agent
RowLT(r, s) ==
    \/ DateLT(r.week_start, s.week_start)
    \/ r.week_start = s.week_start /\ AgentLT(r.agent, s.agent)

RECURSIVE OrderRows(_)
OrderRows(rows) ==
    IF rows = {} THEN <<>>
    ELSE LET first == CHOOSE r \in rows : \A s \in rows \ {r} : RowLT(r, s)
         IN  <<first>> \o OrderRows(rows \ {first})

WeeklyQuery(vs, ps) ==
    LET joined == LeftJoinProspects(CleanedViewings(vs), ps)
        keys == {<<j.v.Agent, DateTruncWeek(j.v.viewing_date)>> : j \in joined}
    IN  OrderRows({WeeklyGroup(joined, k[1], k[2]) : k \in keys})

(***************************************************************************)
(* The weekly table df and column helpers                                  *)
(***************************************************************************)
RowsOf(table) == {table[i] : i \in 1..Len(table)}

\* df["agent"].unique()
AgentsOf(table) == {table[i].agent : i \in 1..Len(table)}

\* sorted(df["agent"].unique())
RECURSIVE SortedAgents(_)
SortedAgents(as) ==
    IF as = {} THEN <<>>
    ELSE LET first == CHOOSE a \in as : \A b \in as \ {a} : AgentLT(a, b)
         IN  <<first>> \o SortedAgents(as \ {first})

\* Series.sum() of one column over the rows of a table, in row order
RECURSIVE ColumnSum(_, _)
ColumnSum(table, col) ==
    IF table = <<>> THEN 0 ELSE table[1][col] + ColumnSum(Tail(table), col)

\* df["week_start"].max() / .min(): NaN on an empty column
MaxWeekStart(table) ==
    IF table = <<>> THEN NaN
    ELSE CHOOSE w \in {r.week_start : r \in RowsOf(table)} :
             \A r \in RowsOf(table) : DateLE(r.week_start, w)

MinWeekStart(table) ==
    IF table = <<>> THEN NaN
    ELSE CHOOSE w \in {r.week_start : r \in RowsOf(table)} :
             \A r \in RowsOf(table) : DateLE(w, r.week_start)

MaxWeekEnd(table) ==
    IF table = <<>> THEN NaN
    ELSE CHOOSE w \in {r.week_end : r \in RowsOf(table)} :
             \A r \in RowsOf(table) : DateLE(r.week_end, w)

(***************************************************************************)
(* Period selector                                                         *)
(***************************************************************************)
\* mutant: the day of the anchor is kept
KeepDay(dt) == dt

\* selected_month.replace(day=1)
ReplaceDay1(dt) == Date(dt.y, dt.m, 1)

\* mutant: the week runs to the same weekday of the next week
WeekEndPlus7(d) == AddDays(d, 7)

\* selected_date + timedelta(days=6)
WeekEnd(d) == AddDays(d, 6)

\* (d + pd.offsets.MonthEnd(1)).date(): the next month end after d; a date
\* that is itself a month end rolls to the end of the following month
MonthEnd1(dt) ==
    IF dt.d < DaysInMonth(dt.y, dt.m) THEN Date(dt.y, dt.m, DaysInMonth(dt.y, dt.m))
    ELSE IF dt.m < 12 THEN Date(dt.y, dt.m + 1, DaysInMonth(dt.y, dt.m + 1))
    ELSE Date(dt.y + 1, 1, 31)

\* view_mode == "Week": the widget returns the date the user picked
ResolveWeek(d) ==
    /\ pc = "start"
    /\ view_mode' = "Week"
    /\ selected_date' = d
    /\ start_date' = d
    /\ end_date' = WeekEnd(d)
    /\ pc' = "resolved"
    /\ UNCHANGED <<df, agg_df, agent_order, selected_agent, summary, narrative, error>>
    /\ UNCHANGED notPageVars

\* view_mode == "Month"
ResolveMonth(d) ==
    /\ pc = "start"
    /\ view_mode' = "Month"
    /\ selected_date' = d
    /\ start_date' = ReplaceDay1(d)
    /\ end_date' = MonthEnd1(ReplaceDay1(d))
    /\ pc' = "resolved"
    /\ UNCHANGED <<df, agg_df, agent_order, selected_agent, summary, narrative, error>>
    /\ UNCHANGED notPageVars

\* view_mode == "Custom range": two independent date widgets
ResolveCustom(s, e) ==
    /\ pc = "start"
    /\ view_mode' = "Custom range"
    /\ selected_date' = NULL
    /\ start_date' = s
    /\ end_date' = e
    /\ pc' = "resolved"
    /\ UNCHANGED <<df, agg_df, agent_order, selected_agent, summary, narrative, error>>
    /\ UNCHANGED notPageVars

\* On an empty table the widgets' default value, df["week_start"].max() or
\* .min(), is NaN, which is no date: the date widget may reject it.
ResolveRejected ==
    /\ pc = "start"
    /\ MaxWeekStart(df) = NaN
    /\ pc' = "failed"
    /\ error' = "DateInputValue"
    /\ UNCHANGED <<df, view_mode, selected_date, start_date, end_date, agg_df,
                   agent_order, selected_agent, summary, narrative>>
    /\ UNCHANGED notPageVars

(***************************************************************************)
(* Aggregation over the period and ranking                                 *)
(***************************************************************************)
\* mutant: the end of the period is excluded
InPeriodExclusiveEnd(r, s, e) == DateLE(s, r.week_start) /\ DateLT(r.week_start, e)

\* the row filter of df.query("@start_date <= week_start <= @end_date")
InPeriod(r, s, e) == DateLE(s, r.week_start) /\ DateLE(r.week_start, e)

\* df.query(...): the rows that pass, in table order
PeriodDf(table, s, e) == SelectSeq(table, LAMBDA r : InPeriod(r, s, e))

\* period_df.groupby("agent", as_index=False).agg({... "sum"}): one row for
\* each agent that has a row, in sorted key order
GroupBySum(table) ==
    LET keys == SortedAgents(AgentsOf(table))
        rowsOfAgent(a) == SelectSeq(table, LAMBDA r : r.agent = a)
    IN  [i \in 1..Len(keys) |->
            [agent |-> keys[i],
             total_viewings |-> ColumnSum(rowsOfAgent(keys[i]), "total_viewings"),
             tenants |-> ColumnSum(rowsOfAgent(keys[i]), "tenants")]]

\* mutant: how="inner", only the agents that have a row in agg
MergeInner(all_agents, agg) ==
    [j \in 1..Len(agg) |->
        [agent |-> agg[j].agent, total_viewings |-> Number(agg[j].total_viewings),
         tenants |-> Number(agg[j].tenants)]]

\* all_agents.merge(agg, on="agent", how="left"): every agent of all_agents
\* once, in its order; NaN where agg has no row for it
MergeLeft(all_agents, agg) ==
    [i \in 1..Len(all_agents) |->
        IF \E j \in 1..Len(agg) : agg[j].agent = all_agents[i]
        THEN LET row == agg[CHOOSE j \in 1..Len(agg) : agg[j].agent = all_agents[i]]
             IN  [agent |-> row.agent, total_viewings |-> Number(row.total_viewings),
                  tenants |-> Number(row.tenants)]
        ELSE
             [agent |-> all_agents[i], total_viewings |-> NullNumber,
              tenants |-> NullNumber]]

\* .fillna(0)
FillNa0(table) ==
    [i \in 1..Len(table) |->
        [agent |-> table[i].agent,
         total_viewings |-> IF table[i].total_viewings = NullNumber THEN 0
                            ELSE table[i].total_viewings[1],
         tenants |-> IF table[i].tenants = NullNumber THEN 0
                     ELSE table[i].tenants[1]]]

AggDf(table, s, e) ==
    FillNa0(MergeLeft(SortedAgents(AgentsOf(table)), GroupBySum(PeriodDf(table, s, e))))

Aggregate ==
    /\ pc = "resolved"
    /\ agg_df' = AggDf(df, start_date, end_date)
    /\ pc' = "aggregated"
    /\ UNCHANGED <<df, view_mode, selected_date, start_date, end_date,
                   agent_order, selected_agent, summary, narrative, error>>
    /\ UNCHANGED notPageVars

\* all orders of the rows of a table
RECURSIVE Orderings(_)
Orderings(rows) ==
    IF rows = {} THEN {<<>>}
    ELSE UNION {{<<r>> \o rest : rest \in Orderings(rows \ {r})} : r \in rows}

\* mutant: ascending=True
SortedAscending(seq) ==
    \A i \in 1..Len(seq) - 1 : seq[i].total_viewings <= seq[i + 1].total_viewings

\* the order test of sort_values("total_viewings", ascending=False)
SortedDescending(seq) ==
    \A i \in 1..Len(seq) - 1 : seq[i].total_viewings >= seq[i + 1].total_viewings

\* agg_df.sort_values("total_viewings", ascending=False)["agent"]: the default
\* sort kind is quicksort, which is not stable, so rows with equal keys may
\* come out in any order
SortValuesResults(table) ==
    {[i \in 1..Len(o) |-> o[i].agent] :
        o \in {p \in Orderings(RowsOf(table)) : SortedDescending(p)}}

Rank ==
    /\ pc = "aggregated"
    /\ agent_order' \in SortValuesResults(agg_df)
    /\ pc' = "ranked"
    /\ UNCHANGED <<df, view_mode, selected_date, start_date, end_date, agg_df,
                   selected_agent, summary, narrative, error>>
    /\ UNCHANGED notPageVars

(***************************************************************************)
(* Agent deep dive and performance summary                                 *)
(***************************************************************************)
\* st.selectbox(..., agents): one of the options, None when there is none
SelectAgent ==
    /\ pc = "ranked"
    /\ IF AgentsOf(df) = {} THEN selected_agent' = NULL
       ELSE selected_agent' \in AgentsOf(df)
    /\ pc' = "selected"
    /\ UNCHANGED <<df, view_mode, selected_date, start_date, end_date, agg_df,
                   agent_order, summary, narrative, error>>
    /\ UNCHANGED notPageVars

\* df[df["agent"] == selected_agent]
AgentRows(table, agent) == SelectSeq(table, LAMBDA r : r.agent = agent)

\* mutant: the rate is cut after the first decimal
PyTruncate1(num, den) == (1000 * num) \div den

\* round(x, 1) of x = num / den * 100, in tenths of a percent; Python rounds
\* an exact half to the even neighbour
PyRound1(num, den) ==
    LET q == (1000 * num) \div den
        rem == (1000 * num) % den
    IN  IF 2 * rem < den THEN q
        ELSE IF 2 * rem > den THEN q + 1
        ELSE IF q % 2 = 0 THEN q ELSE q + 1

\* round((num / den * 100) if den else 0, 1)
SummaryRate(num, den) == IF den = 0 THEN 0 ELSE PyRound1(num, den)

SummaryOf(table, agent) ==
    LET rows == AgentRows(table, agent)
        total_viewings == ColumnSum(rows, "total_viewings")
        total_apps == ColumnSum(rows, "applications")
        total_tenants == ColumnSum(rows, "tenants")
    IN  [agent |-> agent,
         total_viewings |-> total_viewings,
         total_apps |-> total_apps,
         total_tenants |-> total_tenants,
         overall_conv |-> SummaryRate(total_tenants, total_viewings),
         app_rate |-> SummaryRate(total_apps, total_viewings),
         tenant_rate |-> SummaryRate(total_tenants, total_apps)]

\* summary = df[df["agent"] == selected_agent] and the sums and rates
Summarize ==
    /\ pc = "selected"
    /\ summary' = SummaryOf(df, selected_agent)
    /\ pc' = "summarized"
    /\ UNCHANGED <<df, view_mode, selected_date, start_date, end_date, agg_df,
                   agent_order, selected_agent, narrative, error>>
    /\ UNCHANGED notPageVars

\* the narrative text: it formats summary["week_start"].min() and
\* summary["week_end"].max() with strftime, and the sums and rates
RenderSummary ==
    /\ pc = "summarized"
    /\ MinWeekStart(AgentRows(df, selected_agent)) # NaN
    /\ narrative' = [period_start |-> MinWeekStart(AgentRows(df, selected_agent)),
                     period_end |-> MaxWeekEnd(AgentRows(df, selected_agent)),
                     figures |-> summary]
    /\ pc' = "done"
    /\ UNCHANGED <<df, view_mode, selected_date, start_date, end_date, agg_df,
                   agent_order, selected_agent, summary, error>>
    /\ UNCHANGED notPageVars

\* with no row for the selected agent .min() is NaN, a float, which has no
\* strftime: building the text raises and nothing of the summary is rendered
RenderSummaryRaises ==
    /\ pc = "summarized"
    /\ MinWeekStart(AgentRows(df, selected_agent)) = NaN
    /\ error' = "AttributeError"
    /\ pc' = "failed"
    /\ UNCHANGED <<df, view_mode, selected_date, start_date, end_date, agg_df,
                   agent_order, selected_agent, summary, narrative>>
    /\ UNCHANGED notPageVars

(***************************************************************************)
(* Bounds and input sets                                                   *)
(***************************************************************************)
MaxRows == 2         \* rows of a weekly table
MaxCount == 1        \* distinct persons of one agent in one week
MaxViewings == 3     \* rows of the store's viewings table
MaxProspects == 2    \* rows of the store's prospects table

\* two consecutive Mondays, either side of a month end
Weeks == {Date(2024, 1, 29), Date(2024, 2, 5)}

\* a row as the query returns it
MkRow(agent, week_start, v, a, t) ==
    [agent |-> agent,
     week_start |-> week_start,
     week_end |-> AddDays(week_start, 6),
     total_viewings |-> v,
     applications |-> a,
     tenants |-> t,
     view_to_app_rate |-> SqlRate(a, v),
     app_to_tenant_rate |-> SqlRate(t, a),
     total_conversion_rate |-> SqlRate(t, v)]

\* the tables with at most MaxRows rows over the given (agent, week) cells,
\* the counts of each row drawn from triples <<viewings, applications, tenants>>
TablesOver(cells, triples) ==
    UNION {{OrderRows({MkRow(k[1], k[2], f[k][1], f[k][2], f[k][3]) : k \in K}) :
               f \in [K -> triples]} :
           K \in {S \in SUBSET cells : Cardinality(S) <= MaxRows}}

\* every person seen may or may not have applied, may or may not be a tenant
CountTriples ==
    {x \in (1..MaxCount) \X (0..MaxCount) \X (0..MaxCount) : x[2] <= x[1] /\ x[3] <= x[1]}

\* a larger table: three agents over three weeks, with equal and unequal sums
WorkedTable ==
    OrderRows({MkRow("C", Date(2024, 1, 22), 4, 2, 1),
               MkRow("A", Date(2024, 1, 29), 3, 1, 1),
               MkRow("B", Date(2024, 1, 29), 5, 3, 0),
               MkRow("A", Date(2024, 2, 5), 2, 2, 2),
               MkRow("C", Date(2024, 2, 5), 5, 0, 3)})

\* tables for the ranking: applications is not read there
RankingTables ==
    TablesOver(Agents \X Weeks, {x \in CountTriples : x[2] = x[3]}) \cup {WorkedTable}

\* tables for the summary, and the two rows of the worked example
ExampleTable ==
    <<MkRow("A", Date(2024, 1, 1), 10, 5, 2), MkRow("A", Date(2024, 1, 8), 8, 4, 4)>>

SummaryTables ==
    TablesOver({"A", "B"} \X Weeks, CountTriples) \cup {ExampleTable, WorkedTable}

\* dates the user picks in Week and Month mode: every weekday once, across
\* the month end
AnchorDates == {AddDays(Date(2024, 1, 29), n) : n \in 0..7}

\* dates the user picks in Custom mode
RangeDates == {Date(2024, 1, 29), Date(2024, 2, 1), Date(2024, 2, 5)}

\* every date of 2023 and 2024
CalendarDates ==
    {dt \in [y : {2023, 2024}, m : 1..12, d : 1..31] : dt.d <= DaysInMonth(dt.y, dt.m)}

\* the store's tables, for the query
PersonIds == {"p1", "p2"}
DateTexts == {<<28, 1, 2024>>, <<29, 1, 2024>>}
ViewingRows == [personId : PersonIds \cup {NULL}, Agent : {"A", "B"}, Date : DateTexts]
ProspectRows ==
    [personId : PersonIds, Applied : {NULL, "01/02/2024"}, Status : {"Current", "Prospect"}]

(***************************************************************************)
(* Running the query against the store                                     *)
(***************************************************************************)
\* pd.read_sql(query, engine)
RunQuery ==
    /\ qpc = "ready"
    /\ weekly' = WeeklyQuery(viewings, prospects)
    /\ qpc' = "done"
    /\ UNCHANGED <<viewings, prospects>>
    /\ UNCHANGED <<pageVars, cacheVars>>

(***************************************************************************)
(* @st.cache_data(ttl=3600): the result of load_weekly_data is kept for    *)
(* Ttl seconds from the load; every session's script run calls             *)
(* load_weekly_data first, then renders the sections.                      *)
(***************************************************************************)
Ttl == 3600
TickStep == 1800     \* seconds the clock advances in one step
MaxTicks == 3        \* steps of the clock
MaxVersion == 2      \* changes of the database content
MaxQueries == 3      \* queries sent

Sessions == {"s1", "s2"}
Sections == {"ranking", "trend", "summary"}

\* mutant: no ttl, an entry is served for ever
FreshForever(entry, t) == TRUE

\* an entry is served for Ttl seconds from its load
Fresh(entry, t) == t < entry.loaded_at + Ttl

CacheHit == cache # <<>> /\ Fresh(cache[1], now)

Tick ==
    /\ now + TickStep <= MaxTicks * TickStep
    /\ now' = now + TickStep
    /\ UNCHANGED <<cache, store_up, store_version, queries, run_pc, run_df,
                   run_called_at, run_error, rendered>>
    /\ UNCHANGED <<pageVars, storeVars>>

\* the database content changes
StoreWrite ==
    /\ store_version < MaxVersion
    /\ store_version' = store_version + 1
    /\ UNCHANGED <<now, cache, store_up, queries, run_pc, run_df, run_called_at,
                   run_error, rendered>>
    /\ UNCHANGED <<pageVars, storeVars>>

\* the database becomes unreachable, or reachable again
StoreToggle ==
    /\ store_up' = ~store_up
    /\ UNCHANGED <<now, cache, store_version, queries, run_pc, run_df,
                   run_called_at, run_error, rendered>>
    /\ UNCHANGED <<pageVars, storeVars>>

\* df = load_weekly_data(), served from the cache
LoadHit(c) ==
    /\ run_pc[c] = "start"
    /\ CacheHit
    /\ run_df' = [run_df EXCEPT ![c] = cache]
    /\ run_called_at' = [run_called_at EXCEPT ![c] = now]
    /\ run_pc' = [run_pc EXCEPT ![c] = "loaded"]
    /\ UNCHANGED <<now, cache, store_up, store_version, queries, run_error, rendered>>
    /\ UNCHANGED <<pageVars, storeVars>>

\* df = load_weekly_data(), no entry or an expired one: the query runs and
\* its result is stored
LoadMiss(c) ==
    /\ run_pc[c] = "start"
    /\ ~CacheHit
    /\ store_up
    /\ queries < MaxQueries
    /\ queries' = queries + 1
    /\ cache' = <<[data |-> store_version, loaded_at |-> now]>>
    /\ run_df' = [run_df EXCEPT ![c] = cache']
    /\ run_called_at' = [run_called_at EXCEPT ![c] = now]
    /\ run_pc' = [run_pc EXCEPT ![c] = "loaded"]
    /\ UNCHANGED <<now, store_up, store_version, run_error, rendered>>
    /\ UNCHANGED <<pageVars, storeVars>>

\* mutant: when the query fails the expired entry is served
LoadFailsServesStale(c) ==
    /\ run_pc[c] = "start"
    /\ ~CacheHit
    /\ ~store_up
    /\ queries < MaxQueries
    /\ queries' = queries + 1
    /\ run_called_at' = [run_called_at EXCEPT ![c] = now]
    /\ IF cache = <<>>
       THEN /\ run_error' = [run_error EXCEPT ![c] = "OperationalError"]
            /\ run_pc' = [run_pc EXCEPT ![c] = "failed"]
            /\ UNCHANGED run_df
       ELSE /\ run_df' = [run_df EXCEPT ![c] = cache]
            /\ run_pc' = [run_pc EXCEPT ![c] = "loaded"]
            /\ UNCHANGED run_error
    /\ UNCHANGED <<now, cache, store_up, store_version, rendered>>
    /\ UNCHANGED <<pageVars, storeVars>>

\* df = load_weekly_data(), no entry or an expired one, and pd.read_sql
\* raises: nothing is stored, the exception ends the script run at line 56
LoadFails(c) ==
    /\ run_pc[c] = "start"
    /\ ~CacheHit
    /\ ~store_up
    /\ queries < MaxQueries
    /\ queries' = queries + 1
    /\ cache' = <<>>
    /\ run_called_at' = [run_called_at EXCEPT ![c] = now]
    /\ run_error' = [run_error EXCEPT ![c] = "OperationalError"]
    /\ run_pc' = [run_pc EXCEPT ![c] = "failed"]
    /\ UNCHANGED <<now, store_up, store_version, run_df, rendered>>
    /\ UNCHANGED <<pageVars, storeVars>>

\* the rest of the script, lines 62 to 187, on the loaded table
RenderSections(c) ==
    /\ run_pc[c] = "loaded"
    /\ rendered' = [rendered EXCEPT ![c] = Sections]
    /\ run_pc' = [run_pc EXCEPT ![c] = "done"]
    /\ UNCHANGED <<now, cache, store_up, store_version, queries, run_df,
                   run_called_at, run_error>>
    /\ UNCHANGED <<pageVars, storeVars>>

\* the next interaction of the session reruns the script from the top
Rerun(c) ==
    /\ run_pc[c] \in {"done", "failed"}
    /\ run_pc' = [run_pc EXCEPT ![c] = "start"]
    /\ run_df' = [run_df EXCEPT ![c] = <<>>]
    /\ run_error' = [run_error EXCEPT ![c] = NoError]
    /\ rendered' = [rendered EXCEPT ![c] = {}]
    /\ UNCHANGED <<now, cache, store_up, store_version, queries, run_called_at>>
    /\ UNCHANGED <<pageVars, storeVars>>

(***************************************************************************)
(* Specifications                                                          *)
(***************************************************************************)
StoreIdle ==
    /\ viewings = {}
    /\ prospects = {}
    /\ weekly = <<>>
    /\ qpc = "idle"

CacheStart ==
    /\ now = 0
    /\ cache = <<>>
    /\ store_up = TRUE
    /\ store_version = 0
    /\ queries = 0
    /\ run_pc = [c \in Sessions |-> "start"]
    /\ run_df = [c \in Sessions |-> <<>>]
    /\ run_called_at = [c \in Sessions |-> 0]
    /\ run_error = [c \in Sessions |-> NoError]
    /\ rendered = [c \in Sessions |-> {}]

PageIdle ==
    /\ df = <<>>
    /\ pc = "idle"
    /\ view_mode = NULL
    /\ selected_date = NULL
    /\ start_date = NULL
    /\ end_date = NULL
    /\ agg_df = NULL
    /\ agent_order = NULL
    /\ selected_agent = NULL
    /\ summary = NULL
    /\ narrative = NULL
    /\ error = NoError

\* the query over every small content of the store
InitAdapter ==
    /\ viewings \in {S \in SUBSET ViewingRows : Cardinality(S) <= MaxViewings}
    /\ prospects \in {S \in SUBSET ProspectRows : Cardinality(S) <= MaxProspects}
    /\ weekly = <<>>
    /\ qpc = "ready"
    /\ PageIdle
    /\ CacheStart

NextAdapter == RunQuery

SpecAdapter == InitAdapter /\ [][NextAdapter]_vars

\* the memoised load, two sessions
InitCache == CacheStart /\ PageIdle /\ StoreIdle

NextCache ==
    \/ Tick
    \/ StoreWrite
    \/ StoreToggle
    \/ \E c \in Sessions : LoadHit(c)
    \/ \E c \in Sessions : LoadMiss(c)
    \/ \E c \in Sessions : LoadFails(c)
    \/ \E c \in Sessions : RenderSections(c)
    \/ \E c \in Sessions : Rerun(c)

SpecCache == InitCache /\ [][NextCache]_vars

PageStart(tables) ==
    /\ df \in tables
    /\ pc = "start"
    /\ view_mode = NULL
    /\ selected_date = NULL
    /\ start_date = NULL
    /\ end_date = NULL
    /\ agg_df = NULL
    /\ agent_order = NULL
    /\ selected_agent = NULL
    /\ summary = NULL
    /\ narrative = NULL
    /\ error = NoError

\* the period selector alone, over every date of two years
InitPeriod == PageStart({ExampleTable}) /\ StoreIdle /\ CacheStart

NextPeriod ==
    \/ \E d \in CalendarDates : ResolveWeek(d)
    \/ \E d \in CalendarDates : ResolveMonth(d)
    \/ \E s \in RangeDates, e \in RangeDates : ResolveCustom(s, e)

SpecPeriod == InitPeriod /\ [][NextPeriod]_vars

\* the ranking section: period selector, aggregation, ranking
InitRanking == PageStart(RankingTables) /\ StoreIdle /\ CacheStart

NextRanking ==
    \/ \E d \in AnchorDates : ResolveWeek(d)
    \/ \E d \in AnchorDates : ResolveMonth(d)
    \/ \E s \in RangeDates, e \in RangeDates : ResolveCustom(s, e)
    \/ ResolveRejected
    \/ Aggregate
    \/ Rank

SpecRanking == InitRanking /\ [][NextRanking]_vars

\* the date the Week widget shows when the user leaves it alone
DefaultAnchor(table) ==
    IF table = <<>> THEN {Date(2024, 1, 29)} ELSE {MaxWeekStart(table)}

\* the whole page run, the period widgets left at their defaults
Init == PageStart(SummaryTables) /\ StoreIdle /\ CacheStart

Next ==
    \/ \E d \in DefaultAnchor(df) : ResolveWeek(d)
    \/ ResolveRejected
    \/ Aggregate
    \/ Rank
    \/ SelectAgent
    \/ Summarize
    \/ RenderSummary
    \/ RenderSummaryRaises

Spec == Init /\ [][Next]_vars


(***************************************************************************)
(* Properties                                                              *)
(***************************************************************************)
\* the sum of one column over the rows of a table at the given positions
RECURSIVE SumAt(_, _, _)
SumAt(table, idx, col) ==
    IF idx = {} THEN 0
    ELSE LET i == CHOOSE k \in idx : TRUE
         IN  table[i][col] + SumAt(table, idx \ {i}, col)

\* w lies in [s, e], both ends included, by day number
Between(s, w, e) == ToOrdinal(s) <= ToOrdinal(w) /\ ToOrdinal(w) <= ToOrdinal(e)

\* positions of the rows of df of one agent whose week_start is in the period
PeriodRowsOf(a) ==
    {i \in 1..Len(df) : df[i].agent = a /\ Between(start_date, df[i].week_start, end_date)}

Aggregated == pc \in {"aggregated", "ranked"}

\* C1: whatever the table and the period (an inverted Custom period
\* included), the aggregate holds every agent of the whole table exactly
\* once and no other agent; an agent with no row in the period has 0
\* viewings and 0 tenants; the aggregation raises nothing.
ZeroFill ==
    Aggregated =>
        /\ error = NoError
        /\ \A a \in {df[i].agent : i \in 1..Len(df)} :
              Cardinality({j \in 1..Len(agg_df) : agg_df[j].agent = a}) = 1
        /\ \A j \in 1..Len(agg_df) : \E i \in 1..Len(df) : df[i].agent = agg_df[j].agent
        /\ \A j \in 1..Len(agg_df) :
              PeriodRowsOf(agg_df[j].agent) = {} =>
                  agg_df[j].total_viewings = 0 /\ agg_df[j].tenants = 0

\* an inverted Custom period over a table of two or more agents: all sums 0
ZeroFillWitness ==
    /\ pc = "aggregated"
    /\ view_mode = "Custom range"
    /\ ToOrdinal(start_date) > ToOrdinal(end_date)
    /\ Len(agg_df) >= 2
    /\ \A j \in 1..Len(agg_df) : agg_df[j].total_viewings = 0 /\ agg_df[j].tenants = 0

\* C2: each agent's sums are the sums over exactly its rows with
\* start_date <= week_start <= end_date, both ends included; week_end plays
\* no part.
PeriodSums ==
    Aggregated =>
        \A j \in 1..Len(agg_df) :
            /\ agg_df[j].total_viewings =
                   SumAt(df, PeriodRowsOf(agg_df[j].agent), "total_viewings")
            /\ agg_df[j].tenants = SumAt(df, PeriodRowsOf(agg_df[j].agent), "tenants")

\* an agent with a row starting on start_date and a row starting on end_date,
\* both counted, and a row of the table outside the period
PeriodSumsWitness ==
    /\ pc = "aggregated"
    /\ ToOrdinal(start_date) < ToOrdinal(end_date)
    /\ \E j \in 1..Len(agg_df) : \E i1, i2 \in 1..Len(df) :
          /\ df[i1].agent = agg_df[j].agent /\ df[i1].week_start = start_date
          /\ df[i2].agent = agg_df[j].agent /\ df[i2].week_start = end_date
          /\ agg_df[j].total_viewings = df[i1].total_viewings + df[i2].total_viewings
    /\ \E i \in 1..Len(df) : ~Between(start_date, df[i].week_start, end_date)

\* the summed viewings of an agent in agg_df
ViewingsOf(a) == agg_df[CHOOSE j \in 1..Len(agg_df) : agg_df[j].agent = a].total_viewings

\* agent_order lists every agent of agg_df exactly once
OrderIsPermutation ==
    /\ Len(agent_order) = Len(agg_df)
    /\ \A j \in 1..Len(agg_df) : \E i \in 1..Len(agent_order) :
          agent_order[i] = agg_df[j].agent

\* C3 as stated: the order is the sort by (summed viewings descending, agent
\* ascending).
RankOrderTiesAlphabetical ==
    pc = "ranked" =>
        /\ OrderIsPermutation
        /\ \A i, j \in 1..Len(agent_order) :
              i < j =>
                  \/ ViewingsOf(agent_order[i]) > ViewingsOf(agent_order[j])
                  \/ /\ ViewingsOf(agent_order[i]) = ViewingsOf(agent_order[j])
                     /\ AgentLT(agent_order[i], agent_order[j])

\* C3 amended: the order lists every agent once and the summed viewings
\* never increase along it; agents with equal sums come in no fixed order.
RankOrderNonIncreasing ==
    pc = "ranked" =>
        /\ OrderIsPermutation
        /\ \A i, j \in 1..Len(agent_order) :
              i < j => ViewingsOf(agent_order[i]) >= ViewingsOf(agent_order[j])

\* three agents ranked against the alphabet, with three different sums
RankOrderWitness ==
    /\ pc = "ranked"
    /\ Len(agent_order) = 3
    /\ AgentLT(agent_order[3], agent_order[1])
    /\ ViewingsOf(agent_order[1]) > ViewingsOf(agent_order[2])
    /\ ViewingsOf(agent_order[2]) > ViewingsOf(agent_order[3])

\* the first Monday on or after a date
MondayFrom(dt) == AddDays(dt, (7 - Weekday(dt)) % 7)

AllWeekStartsMonday == \A i \in 1..Len(df) : Weekday(df[i].week_start) = 0

\* C10: in Week mode over a table of Monday weeks, whatever weekday the
\* anchor is, the rows in the period all start on the one Monday of
\* [anchor, anchor + 6]; each agent's sums come from at most one row, and for
\* an anchor that is no Monday that row is of the week starting after the
\* anchor, not of the week containing it.
WeekModeSingleWeek ==
    (Aggregated /\ view_mode = "Week" /\ AllWeekStartsMonday) =>
        LET monday == MondayFrom(selected_date)
        IN  /\ Between(selected_date, monday, AddDays(selected_date, 6))
            /\ Weekday(selected_date) # 0 => ToOrdinal(monday) > ToOrdinal(selected_date)
            /\ \A j \in 1..Len(agg_df) :
                  LET at == {i \in 1..Len(df) : df[i].agent = agg_df[j].agent
                                                /\ df[i].week_start = monday}
                  IN  /\ Cardinality(at) <= 1
                      /\ agg_df[j].total_viewings = SumAt(df, at, "total_viewings")
                      /\ agg_df[j].tenants = SumAt(df, at, "tenants")

\* an anchor that is no Monday: the agent's row of the week containing the
\* anchor is left out, its row of the following week is the sum
WeekModeWitness ==
    /\ pc = "aggregated"
    /\ view_mode = "Week"
    /\ Weekday(selected_date) # 0
    /\ \E j \in 1..Len(agg_df) : \E i1, i2 \in 1..Len(df) :
          /\ df[i1].agent = agg_df[j].agent
          /\ df[i2].agent = agg_df[j].agent
          /\ Between(df[i1].week_start, selected_date, df[i1].week_end)
          /\ df[i2].week_start = MondayFrom(selected_date)
          /\ agg_df[j].total_viewings = df[i2].total_viewings

\* positions of all rows of df of one agent
AllRowsOf(a) == {i \in 1..Len(df) : df[i].agent = a}

\* rate, in tenths of a percent, is num / den * 100 to the nearest tenth, and
\* 0 when den is 0
NearestTenth(rate, num, den) ==
    IF den = 0 THEN rate = 0
    ELSE LET diff == rate * den - 1000 * num
         IN  2 * (IF diff < 0 THEN 0 - diff ELSE diff) <= den

SummaryComputed ==
    \/ pc \in {"summarized", "done"}
    \/ pc = "failed" /\ error = "AttributeError"

\* C4: the summary of an agent sums viewings, applications and tenants over
\* all its rows of the whole table, whatever the period; each rate is the
\* ratio times 100 to one decimal, and 0 when its denominator is 0.  The rows
\* (10,5,2) and (8,4,4) give 18, 9, 6 and 50.0, 66.7, 33.3.
SummaryFigures ==
    SummaryComputed =>
        /\ summary.total_viewings = SumAt(df, AllRowsOf(selected_agent), "total_viewings")
        /\ summary.total_apps = SumAt(df, AllRowsOf(selected_agent), "applications")
        /\ summary.total_tenants = SumAt(df, AllRowsOf(selected_agent), "tenants")
        /\ NearestTenth(summary.overall_conv, summary.total_tenants, summary.total_viewings)
        /\ NearestTenth(summary.app_rate, summary.total_apps, summary.total_viewings)
        /\ NearestTenth(summary.tenant_rate, summary.total_tenants, summary.total_apps)
        /\ (df = ExampleTable /\ selected_agent = "A") =>
              /\ summary.total_viewings = 18
              /\ summary.total_apps = 9
              /\ summary.total_tenants = 6
              /\ summary.app_rate = 500
              /\ summary.tenant_rate = 667
              /\ summary.overall_conv = 333

\* the worked example, rendered; only its second row is in the period
SummaryFiguresWitness ==
    /\ pc = "done"
    /\ df = ExampleTable
    /\ selected_agent = "A"
    /\ start_date = Date(2024, 1, 8)
    /\ narrative.figures.tenant_rate = 667

\* C9: when the table has no row for the selected agent (an empty table,
\* where nothing can be selected), the page run completes and renders a
\* summary with all sums and rates 0.
EmptySelectionRenders ==
    (pc \in {"done", "failed"} /\ AllRowsOf(selected_agent) = {}) =>
        /\ pc = "done"
        /\ narrative.figures.total_viewings = 0
        /\ narrative.figures.total_apps = 0
        /\ narrative.figures.total_tenants = 0
        /\ narrative.figures.overall_conv = 0
        /\ narrative.figures.app_rate = 0
        /\ narrative.figures.tenant_rate = 0

\* the last day of a month, from the calendar
LastDayOf(y, m) ==
    IF m \in {1, 3, 5, 7, 8, 10, 12} THEN 31
    ELSE IF m \in {4, 6, 9, 11} THEN 30
    ELSE IF y \in {2024} THEN 29 ELSE 28

\* C6: in Month mode the period runs from the first to the last day of the
\* anchor's month (28, 29, 30 or 31); 2024-02-15 gives 2024-02-01 to
\* 2024-02-29.
MonthPeriod ==
    (pc = "resolved" /\ view_mode = "Month") =>
        /\ start_date = [y |-> selected_date.y, m |-> selected_date.m, d |-> 1]
        /\ end_date = [y |-> selected_date.y, m |-> selected_date.m,
                       d |-> LastDayOf(selected_date.y, selected_date.m)]
        /\ ToOrdinal(end_date) - ToOrdinal(start_date) \in {27, 28, 29, 30}
        /\ selected_date = [y |-> 2024, m |-> 2, d |-> 15] =>
              /\ start_date = [y |-> 2024, m |-> 2, d |-> 1]
              /\ end_date = [y |-> 2024, m |-> 2, d |-> 29]

\* the anchor of the example, resolved; and an anchor on the last of a month
MonthPeriodWitness ==
    /\ pc = "resolved"
    /\ view_mode = "Month"
    /\ selected_date = [y |-> 2024, m |-> 2, d |-> 15]
    /\ end_date = [y |-> 2024, m |-> 2, d |-> 29]

RateColumns == {<<"view_to_app_rate", "applications", "total_viewings">>,
                <<"app_to_tenant_rate", "tenants", "applications">>,
                <<"total_conversion_rate", "tenants", "total_viewings">>}

\* C5 as stated: in every row of the query result each of the three rates is
\* null or within [0, 100], and null exactly when its denominator is 0.
RatesWithinHundred ==
    qpc = "done" =>
        \A i \in 1..Len(weekly) : \A c \in RateColumns :
            /\ weekly[i][c[1]] = NullNumber \/ weekly[i][c[1]][1] \in 0..1000
            /\ weekly[i][c[1]] = NullNumber <=> weekly[i][c[3]] = 0

\* C5 amended: each rate is null exactly when its denominator is 0;
\* view_to_app_rate and total_conversion_rate are null or within [0, 100];
\* app_to_tenant_rate is null or not negative, and within [0, 100] whenever
\* tenants <= applications.
RatesBounded ==
    qpc = "done" =>
        \A i \in 1..Len(weekly) :
            /\ \A c \in RateColumns : weekly[i][c[1]] = NullNumber <=> weekly[i][c[3]] = 0
            /\ \A c \in RateColumns :
                  (weekly[i][c[1]] # NullNumber /\ weekly[i][c[2]] <= weekly[i][c[3]]) =>
                      weekly[i][c[1]][1] \in 0..1000
            /\ weekly[i].applications <= weekly[i].total_viewings
            /\ weekly[i].tenants <= weekly[i].total_viewings
            /\ weekly[i].app_to_tenant_rate # NullNumber =>
                  weekly[i].app_to_tenant_rate[1] >= 0

\* a week with more tenants than applicants: app_to_tenant_rate is 200.0;
\* and a week with no applicant: the rate is null
RatesBoundedWitness ==
    /\ qpc = "done"
    /\ \E i \in 1..Len(weekly) :
          /\ weekly[i].applications = 1
          /\ weekly[i].tenants = 2
          /\ weekly[i].app_to_tenant_rate = Number(2000)
          /\ weekly[i].view_to_app_rate = Number(500)
    /\ \E i \in 1..Len(weekly) :
          /\ weekly[i].applications = 0
          /\ weekly[i].app_to_tenant_rate = NullNumber

\* session c's script run calls load_weekly_data in this step
LoadStep(c) == run_pc[c] = "start" /\ run_pc'[c] # "start"

InWindow == cache # <<>> /\ now < cache[1].loaded_at + Ttl

\* C7: a call made within Ttl seconds of the last successful load returns
\* the stored table and sends no query; a call made with no entry, or after
\* the window has expired, sends exactly one query, and its result is stored
\* with the time of the load, so that the calls of the new window read it;
\* no query is sent otherwise.
CacheWindow ==
    [][/\ \A c \in Sessions :
             LoadStep(c) =>
                 IF InWindow
                 THEN /\ queries' = queries
                      /\ cache' = cache
                      /\ run_pc'[c] = "loaded"
                      /\ run_df'[c] = cache
                 ELSE /\ queries' = queries + 1
                      /\ run_pc'[c] = "loaded" =>
                            /\ cache' = <<[data |-> store_version, loaded_at |-> now]>>
                            /\ run_df'[c] = cache'
       /\ queries' # queries => \E c \in Sessions : LoadStep(c)
       /\ cache' # cache => \E c \in Sessions : LoadStep(c)]_vars

\* after the first window expired one refresh ran, and both sessions read
\* the refreshed table, at different times
CacheWindowWitness ==
    /\ queries = 2
    /\ cache # <<>>
    /\ cache[1].loaded_at >= Ttl
    /\ cache[1].data > 0
    /\ \A c \in Sessions : run_pc[c] = "done" /\ run_df[c] = cache
    /\ run_called_at["s1"] < run_called_at["s2"]

\* C8: when the query must run and the store does not answer, the call
\* raises: the run ends with the error, renders no section, sends the query
\* once and gets no table; and no run is ever handed a table whose window
\* had expired when it called.
FailedLoad ==
    [][\A c \in Sessions :
          /\ (LoadStep(c) /\ ~InWindow /\ ~store_up) =>
                /\ run_pc'[c] = "failed"
                /\ run_error'[c] # NoError
                /\ run_df'[c] = <<>>
                /\ queries' = queries + 1
          /\ run_pc'[c] = "failed" => rendered'[c] = {} /\ run_df'[c] = <<>>
          /\ run_df'[c] # <<>> => run_called_at'[c] < run_df'[c][1].loaded_at + Ttl]_vars

\* a refresh after expiry failed for one session while the other still shows
\* the page it rendered from the expired table
FailedLoadWitness ==
    /\ run_pc["s1"] = "failed"
    /\ run_error["s1"] = "OperationalError"
    /\ rendered["s1"] = {}
    /\ run_called_at["s1"] >= Ttl
    /\ queries = 2
    /\ run_pc["s2"] = "done"
    /\ rendered["s2"] = Sections

====
